---- MODULE Spec2Model ----
(***************************************************************************)
(* Model of the iterative web-research assistant: the configuration        *)
(* resolver (both variants), the five-node research workflow of            *)
(* claude_deep_researcher/graph.py, the report post-processing, and the    *)
(* entry points of app.py and example_usage.py around a run.               *)
(*                                                                         *)
(* Representation.  A text (Python str) is a sequence of characters; a     *)
(* literal that is never taken apart is kept as one element ("## Summary").*)
(* A Python value is a tagged record, so that None, strings, numbers,      *)
(* lists and JSON objects can be told apart and compared.                  *)
(***************************************************************************)
EXTENDS Integers, Sequences, FiniteSets, TLC

VARIABLES
    pc,                   \* the node the engine executes next, "END", or "raised";
                          \* "resolve" / "resolved" around a resolution on its own
    research_topic,       \* SummaryState.research_topic
    search_query,         \* SummaryState.search_query
    research_loop_count,  \* SummaryState.research_loop_count
    web_research_results, \* SummaryState.web_research_results
    sources_gathered,     \* SummaryState.sources_gathered
    running_summary,      \* SummaryState.running_summary
    config,               \* config["configurable"] handed to graph.invoke
    env,                  \* os.environ
    variant,              \* which Configuration class resolves: "groq" or "openai"
    resolved,             \* what Configuration.from_runnable_config returned last
    failure,              \* the exception that left the node, or None
    visited,              \* history: the nodes that completed so far, in order
    last_summary,         \* history: what the last summarize_sources returned
    last_call,            \* history: the last external call, its request and its reply
    entry                 \* the entry point around the run: where it stands, what it
                          \* printed, how it ended; None when the graph runs alone

vars == <<pc, research_topic, search_query, research_loop_count,
          web_research_results, sources_gathered, running_summary, config, env,
          variant, resolved, failure, visited, last_summary, last_call, entry>>

----------------------------------------------------------------------------
(* Bounds of the model *)

\* largest loop budget a run is configured with
MaxBudget == 3
\* most characters of citation text given to finalize_summary on its own,
\* block separators included
MaxSourceChars == 5
\* most environment variables set at once when the resolver is run on its own
MaxEnvSet == 2
\* most override-map keys given at once when the resolver is run on its own
MaxOverrides == 2

----------------------------------------------------------------------------
(* Python values *)

None == [t |-> "none"]
Str(s) == [t |-> "str", s |-> s]
Num(n) == [t |-> "num", n |-> n]
\* a float, held in tenths: Float(1) is 0.1
Float(x) == [t |-> "float", tenths |-> x]
Bool(b) == [t |-> "bool", b |-> b]
List(l) == [t |-> "list", l |-> l]
\* a dict / JSON object: the sequence of its <<key, value>> pairs
Obj(o) == [t |-> "obj", o |-> o]

Raise(e) == [ok |-> FALSE, exc |-> e]
Return(v) == [ok |-> TRUE, val |-> v]

\* Python truthiness: `not v`
Falsy(v) ==
    CASE v.t = "none" -> TRUE
      [] v.t = "str" -> v.s = <<>>
      [] v.t = "num" -> v.n = 0
      [] v.t = "float" -> v.tenths = 0
      [] v.t = "bool" -> ~v.b
      [] v.t = "list" -> v.l = <<>>
      [] v.t = "obj" -> v.o = <<>>

HasKey(o, k) == \E i \in 1..Len(o) : o[i][1] = k
Lookup(o, k) == o[CHOOSE i \in 1..Len(o) : o[i][1] = k][2]

\* v[k] as Python evaluates it: only a dict can be indexed by a string
Subscript(v, k) ==
    IF v.t = "obj"
    THEN IF HasKey(v.o, k) THEN Return(Lookup(v.o, k)) ELSE Raise("KeyError")
    ELSE Raise("TypeError")

\* v.get(k): only a dict has the method
DictGet(v, k) ==
    IF v.t = "obj"
    THEN IF HasKey(v.o, k) THEN Return(Lookup(v.o, k)) ELSE Return(None)
    ELSE Raise("AttributeError")

----------------------------------------------------------------------------
(* Texts *)

RECURSIVE Join(_, _)
\* sep.join(parts)
Join(parts, sep) ==
    IF parts = <<>> THEN <<>>
    ELSE IF Len(parts) = 1 THEN parts[1]
    ELSE parts[1] \o sep \o Join(Tail(parts), sep)

RECURSIVE Split(_, _)
\* text.split(sep) for a one-character separator: always at least one part
Split(text, sep) ==
    IF \A i \in 1..Len(text) : text[i] # sep THEN <<text>>
    ELSE LET k == CHOOSE i \in 1..Len(text) :
                      text[i] = sep /\ \A j \in 1..(i - 1) : text[j] # sep
         IN <<SubSeq(text, 1, k - 1)>> \o Split(SubSeq(text, k + 1, Len(text)), sep)

Whitespace == {" ", "\t", "\n", "\r"}

RECURSIVE LStrip(_)
LStrip(text) ==
    IF text # <<>> /\ Head(text) \in Whitespace THEN LStrip(Tail(text)) ELSE text

RECURSIVE RStrip(_)
RStrip(text) ==
    IF text # <<>> /\ text[Len(text)] \in Whitespace
    THEN RStrip(SubSeq(text, 1, Len(text) - 1)) ELSE text

\* text.strip()
Strip(text) == RStrip(LStrip(text))

RECURSIVE RemoveThinking(_)
\* drops every span from an opening marker to the next closing marker
RemoveThinking(text) ==
    IF \E i \in 1..Len(text) : \E j \in (i + 1)..Len(text) :
           text[i] = "<think>" /\ text[j] = "</think>"
    THEN LET i == CHOOSE a \in 1..Len(text) :
                      /\ text[a] = "<think>"
                      /\ \E j \in (a + 1)..Len(text) : text[j] = "</think>"
                      /\ \A b \in 1..(a - 1) :
                             ~(text[b] = "<think>"
                               /\ \E j \in (b + 1)..Len(text) : text[j] = "</think>")
             j == CHOOSE c \in (i + 1)..Len(text) :
                      /\ text[c] = "</think>"
                      /\ \A d \in (i + 1)..(c - 1) : text[d] # "</think>"
         IN SubSeq(text, 1, i - 1) \o RemoveThinking(SubSeq(text, j + 1, Len(text)))
    ELSE text

\* utils.strip_thinking_tokens: the visible text, trimmed
strip_thinking_tokens(text) == Strip(RemoveThinking(text))

----------------------------------------------------------------------------
(* JSON *)

\* the JSON values a model reply of this model can encode
JSONScalars ==
    {None, Bool(FALSE), Num(0), Num(5), Str(<<>>), Str(<<"q">>), List(<<>>)}

JSONValues ==
    JSONScalars
    \cup {Obj(<<>>)}
    \cup {Obj(<< <<k, v>> >>) : k \in {"query", "follow_up_query"}, v \in JSONScalars}

RECURSIVE dumps(_)
\* json.dumps: the text of a JSON value
dumps(v) ==
    CASE v.t = "none" -> <<"null">>
      [] v.t = "bool" -> IF v.b THEN <<"true">> ELSE <<"false">>
      [] v.t = "num" -> <<ToString(v.n)>>
      [] v.t = "str" -> <<"\"">> \o v.s \o <<"\"">>
      [] v.t = "list" ->
            <<"[">> \o Join([i \in 1..Len(v.l) |-> dumps(v.l[i])], <<",">>) \o <<"]">>
      [] v.t = "obj" ->
            <<"{">>
            \o Join([i \in 1..Len(v.o) |->
                        <<"\"", v.o[i][1], "\"", ":">> \o dumps(v.o[i][2])], <<",">>)
            \o <<"}">>

\* the texts of the JSON values, and the value each is the text of
JSONTexts == {dumps(v) : v \in JSONValues}
JSONParsed == [text \in JSONTexts |-> CHOOSE v \in JSONValues : dumps(v) = text]

\* json.loads: the value whose text this is, or JSONDecodeError
json_loads(text) ==
    IF text \in JSONTexts THEN Return(JSONParsed[text]) ELSE Raise("JSONDecodeError")

\* replies that are no JSON text at all
PlainReplies ==
    {<<>>, <<"q">>, <<"<think>", "t", "</think>", " ", "q">>, <<"{", "\"", "query">>}

\* every reply text message.content can hold in this model
Replies == JSONTexts \cup PlainReplies

----------------------------------------------------------------------------
(* Configuration (both variants) *)

Variants == {"groq", "openai"}

model_field(v) == IF v = "groq" THEN "groq_model" ELSE "openai_model"
api_key_field(v) == IF v = "groq" THEN "groq_api_key" ELSE "openai_api_key"

\* cls.model_fields.keys()
model_fields(v) ==
    {"max_web_research_loops", model_field(v), api_key_field(v), "search_api",
     "fetch_full_page", "temperature", "strip_thinking_tokens"}

AllFields == model_fields("groq") \cup model_fields("openai")

\* name.upper()
upper(name) ==
    CASE name = "max_web_research_loops" -> "MAX_WEB_RESEARCH_LOOPS"
      [] name = "groq_model" -> "GROQ_MODEL"
      [] name = "openai_model" -> "OPENAI_MODEL"
      [] name = "groq_api_key" -> "GROQ_API_KEY"
      [] name = "openai_api_key" -> "OPENAI_API_KEY"
      [] name = "search_api" -> "SEARCH_API"
      [] name = "fetch_full_page" -> "FETCH_FULL_PAGE"
      [] name = "temperature" -> "TEMPERATURE"
      [] name = "strip_thinking_tokens" -> "STRIP_THINKING_TOKENS"

EnvNames == {upper(f) : f \in AllFields} \cup {"TAVILY_API_KEY"}

\* Field(default=...)
default_max_web_research_loops == 3
default_temperature == 0
field_default(v, name) ==
    CASE name = "max_web_research_loops" -> Num(default_max_web_research_loops)
      [] name = "groq_model" -> Str(<<"llama-3.3-70b-versatile">>)
      [] name = "openai_model" -> Str(<<"gpt-4">>)
      [] name \in {"groq_api_key", "openai_api_key"} -> None
      [] name = "search_api" -> Str(<<"tavily">>)
      [] name = "fetch_full_page" -> Bool(TRUE)
      [] name = "temperature" -> Float(default_temperature)
      [] name = "strip_thinking_tokens" -> Bool(TRUE)

\* the decimal texts the settings layer reads as numbers
int_texts == ("0" :> 0) @@ ("1" :> 1) @@ ("2" :> 2) @@ ("3" :> 3) @@ ("4" :> 4)
             @@ ("5" :> 5)
float_texts == ("0.0" :> 0) @@ ("0.1" :> 1) @@ ("0.2" :> 2) @@ ("0.7" :> 7)
bool_texts == ("true" :> TRUE) @@ ("false" :> FALSE) @@ ("1" :> TRUE) @@ ("0" :> FALSE)

\* the declared type of a field applied to a supplied value: the field's value,
\* coerced from a string where the type allows it, or a validation error
validate_field(name, x) ==
    CASE name = "max_web_research_loops" ->
            IF x.t = "num" THEN Return(x)
            ELSE IF x.t = "str" /\ Len(x.s) = 1 /\ x.s[1] \in DOMAIN int_texts
            THEN Return(Num(int_texts[x.s[1]]))
            ELSE Raise("ValidationError")
      [] name = "temperature" ->
            IF x.t = "float" THEN Return(x)
            ELSE IF x.t = "num" THEN Return(Float(10 * x.n))
            ELSE IF x.t = "str" /\ Len(x.s) = 1 /\ x.s[1] \in DOMAIN float_texts
            THEN Return(Float(float_texts[x.s[1]]))
            ELSE Raise("ValidationError")
      [] name \in {"fetch_full_page", "strip_thinking_tokens"} ->
            IF x.t = "bool" THEN Return(x)
            ELSE IF x.t = "str" /\ Len(x.s) = 1 /\ x.s[1] \in DOMAIN bool_texts
            THEN Return(Bool(bool_texts[x.s[1]]))
            ELSE Raise("ValidationError")
      [] name = "search_api" ->
            IF x = Str(<<"tavily">>) THEN Return(x) ELSE Raise("ValidationError")
      [] OTHER ->
            IF x.t = "str" THEN Return(x) ELSE Raise("ValidationError")

\* os.environ.get(name, default)
environ_get(e, name, default) == IF e[name] # None THEN e[name] ELSE default

\* the comprehension with the override map consulted before the environment
raw_values_override_first(v, configurable, e) ==
    [name \in model_fields(v) |->
        IF configurable[name] # None THEN configurable[name] ELSE e[upper(name)]]

\* the comprehension taking the model name from either variant's model key
raw_values_any_model(v, configurable, e) ==
    [name \in model_fields(v) |->
        environ_get(e, upper(name),
                    IF name = model_field(v) /\ configurable[name] = None
                    THEN IF configurable["groq_model"] # None
                         THEN configurable["groq_model"]
                         ELSE configurable["openai_model"]
                    ELSE configurable[name])]

\* the dict comprehension of from_runnable_config: environment first, then the
\* override map
raw_values(v, configurable, e) ==
    [name \in model_fields(v) |->
        environ_get(e, upper(name), configurable[name])]

\* raw_values after the special handling of "openai_api_key": the key is written
\* when raw_values.get("openai_api_key") is None, declared field or not
with_openai_api_key(raw, e) ==
    IF "openai_api_key" \in DOMAIN raw /\ raw["openai_api_key"] # None
    THEN raw
    ELSE [name \in DOMAIN raw \cup {"openai_api_key"} |->
             IF name = "openai_api_key" THEN e["OPENAI_API_KEY"] ELSE raw[name]]

\* cls(**values): declared fields are validated, absent ones take their default,
\* keys that are no declared field are ignored
construct(v, values) ==
    LET supplied == {name \in DOMAIN values : values[name] # None}
        checked == [name \in model_fields(v) |->
                       IF name \in supplied
                       THEN validate_field(name, values[name])
                       ELSE Return(field_default(v, name))]
    IN IF \E name \in model_fields(v) : ~checked[name].ok
       THEN Raise("ValidationError")
       ELSE Return([name \in model_fields(v) |-> checked[name].val])

\* the resolver with OPENAI_API_KEY written to the variant's own key field
from_runnable_config_key_fallback(v, configurable, e) ==
    LET raw == raw_values(v, configurable, e)
    IN construct(v, [raw EXCEPT ![api_key_field(v)] =
                                    IF @ = None THEN e["OPENAI_API_KEY"] ELSE @])

\* Configuration.from_runnable_config
from_runnable_config(v, configurable, e) ==
    construct(v, with_openai_api_key(raw_values(v, configurable, e), e))

----------------------------------------------------------------------------
(* Search and formatting utilities *)

Source(title, url, content) == [title |-> title, url |-> url, content |-> content]
SourceA == Source("A", "url1", "a")
SourceB == Source("B", "url2", "b")
SourceC == Source("C", "url3", "c")

\* what one call of tavily_search can return
SearchResults == {<<SourceA, SourceB>>, <<SourceB, SourceC>>}

\* utils.format_sources: one citation line per source
format_sources(results) ==
    Join([i \in 1..Len(results) |->
             <<"* ", results[i].title, " : ", results[i].url>>], <<"\n">>)

\* utils.deduplicate_and_format_sources: one entry per distinct URL, the page
\* text added when fetch_full_page is set
deduplicate_and_format_sources(results, fetch_full_page) ==
    LET first == {i \in 1..Len(results) :
                     \A j \in 1..(i - 1) : results[j].url # results[i].url}
    IN Join([i \in 1..Len(results) |->
                IF i \notin first THEN <<>>
                ELSE <<"Source: ", results[i].title, "\n", "URL: ", results[i].url,
                       "\n", results[i].content>>
                     \o (IF fetch_full_page THEN <<"\n", "raw:", results[i].content>>
                         ELSE <<>>)],
            <<"\n">>)

\* the state reducer of the sequence fields (operator.add)
add(old, new) == old \o new

----------------------------------------------------------------------------
(* Workflow nodes: what each node computes from the state, the resolved       *)
(* Configuration and the reply of its external call                          *)

Nodes == {"generate_query", "web_research", "summarize_sources",
          "reflect_on_summary", "finalize_summary"}

\* str(v) inside an f-string
format_value(v) == IF v.t = "str" THEN v.s ELSE <<"None">>

\* generate_query, from the reply on: {"search_query": ...} or the exception
\* that leaves the node
generate_query_node(configurable, content) ==
    LET query == json_loads(content)
        field == IF query.ok THEN Subscript(query.val, "query") ELSE query
    IN IF field.ok THEN Return(field.val)
       ELSE IF field.exc \in {"JSONDecodeError", "KeyError"}
       THEN Return(Str(IF configurable["strip_thinking_tokens"].b
                       THEN strip_thinking_tokens(content) ELSE content))
       ELSE field

\* the fallback query of reflect_on_summary
fallback_query(topic) == Str(<<"Tell me more about ">> \o topic)

\* reflect_on_summary that falls back only when the field is None
reflect_on_summary_node_none_only(topic, content) ==
    LET reflection_content == json_loads(content)
        query == IF reflection_content.ok
                 THEN DictGet(reflection_content.val, "follow_up_query")
                 ELSE reflection_content
    IN IF query.ok
       THEN IF query.val = None THEN Return(fallback_query(topic))
            ELSE Return(query.val)
       ELSE Return(fallback_query(topic))

\* reflect_on_summary, from the reply on
reflect_on_summary_node(topic, content) ==
    LET reflection_content == json_loads(content)
        query == IF reflection_content.ok
                 THEN DictGet(reflection_content.val, "follow_up_query")
                 ELSE reflection_content
    IN IF query.ok
       THEN IF Falsy(query.val) THEN Return(fallback_query(topic))
            ELSE Return(query.val)
       ELSE IF query.exc \in {"JSONDecodeError", "KeyError", "AttributeError"}
       THEN Return(fallback_query(topic))
       ELSE query

\* the context block taken from the front of the sequence
most_recent_first(results) == results[1]

\* state.web_research_results[-1]
most_recent(results) == results[Len(results)]

\* the user message of summarize_sources with `if existing_summary is not None`
human_message_content_not_none(existing_summary, most_recent_web_research, topic) ==
    IF existing_summary # None
    THEN [framing |-> "Update the Existing Summary with the New Context",
          existing |-> existing_summary, context |-> most_recent_web_research,
          topic |-> topic]
    ELSE [framing |-> "Create a Summary using the Context",
          existing |-> None, context |-> most_recent_web_research, topic |-> topic]

\* the user message of summarize_sources
human_message_content(existing_summary, most_recent_web_research, topic) ==
    IF ~Falsy(existing_summary)
    THEN [framing |-> "Update the Existing Summary with the New Context",
          existing |-> existing_summary, context |-> most_recent_web_research,
          topic |-> topic]
    ELSE [framing |-> "Create a Summary using the Context",
          existing |-> None, context |-> most_recent_web_research, topic |-> topic]

\* summarize_sources, from the reply on
summarize_sources_node(configurable, content) ==
    Str(IF configurable["strip_thinking_tokens"].b
        THEN strip_thinking_tokens(content) ELSE content)

RECURSIVE all_lines(_)
\* every line of every citation block, in scan order
all_lines(sources) ==
    IF sources = <<>> THEN <<>>
    ELSE Split(Head(sources), "\n") \o all_lines(Tail(sources))

RECURSIVE unique_of(_)
\* the loop of finalize_summary over the lines: a line is kept when it is not
\* blank and was not kept before
unique_of(lines) ==
    IF lines = <<>> THEN <<>>
    ELSE LET kept == unique_of(SubSeq(lines, 1, Len(lines) - 1))
             line == lines[Len(lines)]
         IN IF Strip(line) # <<>> /\ \A i \in 1..Len(kept) : kept[i] # line
            THEN Append(kept, line) ELSE kept

unique_sources(sources) == unique_of(all_lines(sources))

\* the template without its summary header
report_without_header(summary, all_sources) ==
    format_value(summary) \o <<"\n", "\n", " ### Sources:", "\n">> \o all_sources

\* the report template of finalize_summary
report(summary, all_sources) ==
    <<"## Summary", "\n">> \o format_value(summary)
    \o <<"\n", "\n", " ### Sources:", "\n">> \o all_sources

\* finalize_summary that joins the lines without deduplicating them
finalize_summary_node_no_dedup(summary, sources) ==
    Str(report(summary, Join(all_lines(sources), <<"\n">>)))

\* finalize_summary
finalize_summary_node(summary, sources) ==
    Str(report(summary, Join(unique_sources(sources), <<"\n">>)))

\* web_research that returns the counter as it found it
web_research_node_stale_count(count, results, fetch_full_page) ==
    [sources_gathered |-> <<format_sources(results)>>,
     research_loop_count |-> count,
     web_research_results |->
         <<deduplicate_and_format_sources(results, fetch_full_page)>>]

\* web_research that counts an execution twice
web_research_node_counting_twice(count, results, fetch_full_page) ==
    [sources_gathered |-> <<format_sources(results)>>,
     research_loop_count |-> count + 2,
     web_research_results |->
         <<deduplicate_and_format_sources(results, fetch_full_page)>>]

\* the update web_research returns
web_research_node(count, results, fetch_full_page) ==
    [sources_gathered |-> <<format_sources(results)>>,
     research_loop_count |-> count + 1,
     web_research_results |->
         <<deduplicate_and_format_sources(results, fetch_full_page)>>]

\* route_research with the boundary excluded
route_research_exclusive(count, configurable) ==
    IF count < configurable["max_web_research_loops"].n
    THEN "web_research" ELSE "finalize_summary"

\* route_research
route_research(count, configurable) ==
    IF count <= configurable["max_web_research_loops"].n
    THEN "web_research" ELSE "finalize_summary"

----------------------------------------------------------------------------
(* The workflow run *)

Topics == {<<"Quantum Computing">>, <<"AI">>}

\* what the summarizer model can reply
SummaryReplies ==
    {<<"s1">>, <<"<think>", "t", "</think>", "s2">>, <<"<think>", "t", "</think>">>}

\* an external call returns a reply or fails
Outcomes(replies) == {Return(r) : r \in replies} \cup {Raise("APIError")}

\* the override map of the entry points, for a budget and a stripping flag
run_config(budget, strip) ==
    [name \in AllFields |->
        CASE name = "groq_model" -> Str(<<"llama-3.3-70b-versatile">>)
          [] name = "temperature" -> Float(1)
          [] name = "max_web_research_loops" -> Num(budget)
          [] name = "fetch_full_page" -> Bool(TRUE)
          [] name = "strip_thinking_tokens" -> Bool(strip)
          [] OTHER -> None]

\* the environment the entry points require: both provider keys set
run_env ==
    [name \in EnvNames |->
        IF name \in {"GROQ_API_KEY", "TAVILY_API_KEY"} THEN Str(<<"key">>) ELSE None]

\* the Configuration as the environment of the start of the run gives it
Resolve_at_start == from_runnable_config(variant, config, run_env)

\* the Configuration a node resolves now
Resolve == from_runnable_config(variant, config, env)

\* the request fields every chat call takes from the Configuration
chat_request(configurable, node, message) ==
    [node |-> node, model |-> configurable[model_field(variant)],
     temperature |-> configurable["temperature"], message |-> message]

\* the edges with web_research wired past summarize_sources
edge_skipping_summary(node) ==
    CASE node = "START" -> "generate_query"
      [] node = "generate_query" -> "web_research"
      [] node = "web_research" -> "reflect_on_summary"
      [] node = "summarize_sources" -> "reflect_on_summary"
      [] node = "finalize_summary" -> "END"

\* builder.add_edge: the node that follows a node unconditionally
edge(node) ==
    CASE node = "START" -> "generate_query"
      [] node = "generate_query" -> "web_research"
      [] node = "web_research" -> "summarize_sources"
      [] node = "summarize_sources" -> "reflect_on_summary"
      [] node = "finalize_summary" -> "END"

\* an exception leaves the node and the engine runs the node again
Abort_retrying(node, exc) ==
    /\ pc' = node
    /\ failure' = [node |-> node, exc |-> exc]
    /\ UNCHANGED visited

\* an exception leaves the node: the run is over and the node's update is lost
Abort(node, exc) ==
    /\ pc' = "raised"
    /\ failure' = [node |-> node, exc |-> exc]
    /\ UNCHANGED visited

Init ==
    /\ pc = edge("START")
    /\ research_topic \in Topics
    /\ search_query = None
    /\ research_loop_count = 0
    /\ web_research_results = <<>>
    /\ sources_gathered = <<>>
    /\ running_summary = None
    /\ config \in {run_config(n, b) : n \in 0..MaxBudget, b \in BOOLEAN}
    /\ env = run_env
    /\ variant = "groq"
    /\ resolved = None
    /\ failure = None
    /\ visited = <<>>
    /\ last_summary = None
    /\ last_call = None
    /\ entry = None

generate_query ==
    /\ pc = "generate_query"
    /\ \E outcome \in Outcomes(Replies) :
         LET c == Resolve
             call == [request |-> chat_request(c.val, "generate_query", research_topic),
                      reply |-> outcome]
             update == IF ~c.ok THEN c
                       ELSE IF ~outcome.ok THEN outcome
                       ELSE generate_query_node(c.val, outcome.val)
         IN /\ resolved' = c
            /\ last_call' = IF c.ok THEN call ELSE last_call
            /\ IF update.ok
               THEN /\ search_query' = update.val
                    /\ pc' = edge("generate_query")
                    /\ visited' = Append(visited, "generate_query")
                    /\ UNCHANGED failure
               ELSE /\ Abort("generate_query", update.exc)
                    /\ UNCHANGED search_query
    /\ UNCHANGED <<research_topic, research_loop_count, web_research_results,
                   sources_gathered, running_summary, config, env, variant,
                   last_summary, entry>>

web_research ==
    /\ pc = "web_research"
    /\ \E outcome \in Outcomes(SearchResults) :
         LET c == Resolve
             call == [request |-> [node |-> "web_research", query |-> search_query,
                                   fetch_full_page |-> c.val["fetch_full_page"],
                                   max_results |-> 3],
                      reply |-> outcome]
             update == web_research_node(research_loop_count, outcome.val,
                                         c.val["fetch_full_page"].b)
         IN /\ resolved' = c
            /\ last_call' = IF c.ok THEN call ELSE last_call
            /\ IF c.ok /\ outcome.ok
               THEN /\ sources_gathered' =
                           add(sources_gathered, update.sources_gathered)
                    /\ research_loop_count' = update.research_loop_count
                    /\ web_research_results' =
                           add(web_research_results, update.web_research_results)
                    /\ pc' = edge("web_research")
                    /\ visited' = Append(visited, "web_research")
                    /\ UNCHANGED failure
               ELSE /\ Abort("web_research", IF c.ok THEN outcome.exc ELSE c.exc)
                    /\ UNCHANGED <<sources_gathered, research_loop_count,
                                   web_research_results>>
    /\ UNCHANGED <<research_topic, search_query, running_summary, config, env,
                   variant, last_summary, entry>>

summarize_sources ==
    /\ pc = "summarize_sources"
    /\ \E outcome \in Outcomes(SummaryReplies) :
         LET indexed == web_research_results # <<>>
             c == Resolve
             message == human_message_content(
                            running_summary,
                            most_recent(web_research_results),
                            research_topic)
             call == [request |-> chat_request(c.val, "summarize_sources", message),
                      reply |-> outcome]
         IN /\ resolved' = IF indexed THEN c ELSE resolved
            /\ last_call' = IF indexed /\ c.ok THEN call ELSE last_call
            /\ IF indexed /\ c.ok /\ outcome.ok
               THEN /\ running_summary' = summarize_sources_node(c.val, outcome.val)
                    /\ last_summary' = running_summary'
                    /\ pc' = edge("summarize_sources")
                    /\ visited' = Append(visited, "summarize_sources")
                    /\ UNCHANGED failure
               ELSE /\ Abort("summarize_sources",
                             IF ~indexed THEN "IndexError"
                             ELSE IF c.ok THEN outcome.exc ELSE c.exc)
                    /\ UNCHANGED <<running_summary, last_summary>>
    /\ UNCHANGED <<research_topic, search_query, research_loop_count,
                   web_research_results, sources_gathered, config, env, variant,
                   entry>>

reflect_on_summary ==
    /\ pc = "reflect_on_summary"
    /\ \E outcome \in Outcomes(Replies) :
         LET c == Resolve
             call == [request |-> chat_request(c.val, "reflect_on_summary",
                                               running_summary),
                      reply |-> outcome]
             update == IF ~c.ok THEN c
                       ELSE IF ~outcome.ok THEN outcome
                       ELSE reflect_on_summary_node(research_topic, outcome.val)
         IN /\ resolved' = c
            /\ last_call' = IF c.ok THEN call ELSE last_call
            /\ IF update.ok
               THEN /\ search_query' = update.val
                    /\ pc' = route_research(research_loop_count, Resolve.val)
                    /\ visited' = Append(visited, "reflect_on_summary")
                    /\ UNCHANGED failure
               ELSE /\ Abort("reflect_on_summary", update.exc)
                    /\ UNCHANGED search_query
    /\ UNCHANGED <<research_topic, research_loop_count, web_research_results,
                   sources_gathered, running_summary, config, env, variant,
                   last_summary, entry>>

finalize_summary ==
    /\ pc = "finalize_summary"
    /\ running_summary' = finalize_summary_node(running_summary, sources_gathered)
    /\ pc' = edge("finalize_summary")
    /\ visited' = Append(visited, "finalize_summary")
    /\ UNCHANGED <<research_topic, search_query, research_loop_count,
                   web_research_results, sources_gathered, config, env, variant,
                   resolved, failure, last_summary, last_call, entry>>

Next ==
    \/ generate_query
    \/ web_research
    \/ summarize_sources
    \/ reflect_on_summary
    \/ finalize_summary

Spec == Init /\ [][Next]_vars

----------------------------------------------------------------------------
(* Properties of the workflow run *)

RECURSIVE Count(_, _)
\* how often x occurs in a sequence
Count(seq, x) ==
    IF seq = <<>> THEN 0
    ELSE (IF Head(seq) = x THEN 1 ELSE 0) + Count(Tail(seq), x)

\* the loop budget the run is configured with
Budget == Resolve.val["max_web_research_loops"].n

\* the call the state holds was issued by this node and returned a reply
Replied(node) ==
    /\ last_call # None
    /\ last_call.request.node = node
    /\ last_call.reply.ok

C2_LoopCountWithinBudget == research_loop_count <= Budget

\* C3: both sequences are as long as the counter says, in every state; a step
\* that changes a sequence or the counter is a web_research step that appends
\* one element to each sequence and adds one to the counter.
C3_SequencesFollowCounter ==
    /\ [](/\ Len(sources_gathered) = research_loop_count
          /\ Len(web_research_results) = research_loop_count)
    /\ [][(\/ sources_gathered' # sources_gathered
           \/ web_research_results' # web_research_results
           \/ research_loop_count' # research_loop_count)
          => /\ pc = "web_research"
             /\ Len(sources_gathered') = Len(sources_gathered) + 1
             /\ SubSeq(sources_gathered', 1, Len(sources_gathered)) = sources_gathered
             /\ Len(web_research_results') = Len(web_research_results) + 1
             /\ SubSeq(web_research_results', 1, Len(web_research_results))
                    = web_research_results
             /\ research_loop_count' = research_loop_count + 1]_vars

C3_Witness ==
    /\ research_loop_count = 2
    /\ Len(sources_gathered) = 2
    /\ Len(web_research_results) = 2
    /\ pc = "summarize_sources"

\* the edges of the graph
GraphEdges ==
    {<<"generate_query", "web_research">>, <<"web_research", "summarize_sources">>,
     <<"summarize_sources", "reflect_on_summary">>,
     <<"reflect_on_summary", "web_research">>,
     <<"reflect_on_summary", "finalize_summary">>}

\* C4: the completed nodes form a path of the graph that starts at
\* generate_query, which runs once; the node to run next continues the path; the
\* end is reached only from finalize_summary, which then ran exactly once, last.
C4_RunFollowsEdges ==
    /\ visited # <<>> => visited[1] = "generate_query"
    /\ \A i \in 1..(Len(visited) - 1) : <<visited[i], visited[i + 1]>> \in GraphEdges
    /\ Count(visited, "generate_query") <= 1
    /\ pc \in Nodes =>
           IF visited = <<>> THEN pc = "generate_query"
           ELSE <<visited[Len(visited)], pc>> \in GraphEdges
    /\ pc = "END" =>
           /\ visited[Len(visited)] = "finalize_summary"
           /\ Count(visited, "finalize_summary") = 1
           /\ Count(visited, "generate_query") = 1
    /\ pc # "END" => Count(visited, "finalize_summary") = 0

C4_Witness ==
    /\ pc = "END"
    /\ Len(visited) > 5
    /\ visited[Len(visited)] = "finalize_summary"

\* the search_query C5 expects from a reply
C5_Expected(content, strip) ==
    LET parsed == json_loads(content)
    IN IF parsed.ok /\ parsed.val.t = "obj" /\ HasKey(parsed.val.o, "query")
       THEN Lookup(parsed.val.o, "query")
       ELSE Str(IF strip THEN strip_thinking_tokens(content) ELSE content)

\* C5: whatever the reply, generate_query does not raise, and search_query is the
\* `query` field of a parsed object and the (stripped) raw text otherwise.
C5_GenerateQueryAlwaysFallsBack ==
    Replied("generate_query") /\ pc \in {"web_research", "raised"} =>
        /\ pc = "web_research"
        /\ search_query = C5_Expected(last_call.reply.val,
                                      resolved.val["strip_thinking_tokens"].b)

\* C6: whatever the reply, reflect_on_summary does not raise; search_query is the
\* follow_up_query of a parsed object when that is present and not empty (None,
\* and whatever Python counts as empty: "", [], {}, 0, False), and
\* "Tell me more about T" otherwise.
C6_ReflectFallsBackToTopic ==
    Replied("reflect_on_summary") =>
        LET parsed == json_loads(last_call.reply.val)
            given == /\ parsed.ok
                     /\ parsed.val.t = "obj"
                     /\ HasKey(parsed.val.o, "follow_up_query")
                     /\ ~Falsy(Lookup(parsed.val.o, "follow_up_query"))
        IN /\ pc # "raised"
           /\ search_query = IF given THEN Lookup(parsed.val.o, "follow_up_query")
                             ELSE Str(<<"Tell me more about ">> \o research_topic)

C6_Witness ==
    /\ Replied("reflect_on_summary")
    /\ ~json_loads(last_call.reply.val).ok
    /\ research_topic = <<"Quantum Computing">>
    /\ search_query = Str(<<"Tell me more about ", "Quantum Computing">>)

\* C8: the report of a completed run is the template around the last summary and
\* the joined deduplicated source lines, applied once: it begins with the summary
\* header and holds one sources header.
C8_ReportIsTemplateOnce ==
    pc = "END" =>
        /\ running_summary =
               Str(<<"## Summary", "\n">> \o last_summary.s
                   \o <<"\n", "\n", " ### Sources:", "\n">>
                   \o Join(unique_sources(sources_gathered), <<"\n">>))
        /\ running_summary.s[1] = "## Summary"
        /\ Cardinality({i \in 1..Len(running_summary.s) :
                           running_summary.s[i] = " ### Sources:"}) = 1
        /\ Count(visited, "finalize_summary") = 1

C8_Witness ==
    /\ pc = "END"
    /\ last_summary = Str(<<"s1">>)
    /\ running_summary =
           Str(<<"## Summary", "\n", "s1", "\n", "\n", " ### Sources:", "\n",
                 "* ", "A", " : ", "url1", "\n", "* ", "B", " : ", "url2", "\n",
                 "* ", "C", " : ", "url3">>)

----------------------------------------------------------------------------
(* finalize_summary on its own, over every short sequence of citation blocks *)

RECURSIVE TextsUpTo(_, _)
\* the texts over an alphabet of at most n characters
TextsUpTo(alphabet, n) ==
    IF n = 0 THEN {<<>>}
    ELSE LET shorter == TextsUpTo(alphabet, n - 1)
         IN shorter \cup {Append(t, ch) : t \in shorter, ch \in alphabet}

\* the sequences of citation blocks: a text cut at "|" into its blocks
SourceSequences ==
    {IF flat = <<>> THEN <<>> ELSE Split(flat, "|") :
        flat \in TextsUpTo({"a", "b", " ", "\n", "|"}, MaxSourceChars)}

InitFinalize ==
    /\ pc = "finalize_summary"
    /\ research_topic = <<"AI">>
    /\ search_query = fallback_query(research_topic)
    /\ sources_gathered \in SourceSequences
    /\ research_loop_count = Len(sources_gathered)
    /\ web_research_results = [i \in 1..Len(sources_gathered) |-> <<>>]
    /\ running_summary = Str(<<"s1">>)
    /\ config = run_config(default_max_web_research_loops, TRUE)
    /\ env = run_env
    /\ variant = "groq"
    /\ resolved = None
    /\ failure = None
    /\ visited = <<>>
    /\ last_summary = running_summary
    /\ last_call = None
    /\ entry = None

SpecFinalize == InitFinalize /\ [][finalize_summary]_vars

\* the text of the report after its sources header
SourceSection ==
    LET text == running_summary.s
        header == CHOOSE i \in 1..Len(text) : text[i] = " ### Sources:"
    IN SubSeq(text, header + 2, Len(text))

\* the lines of the source section; an empty section has none
SectionLines == IF SourceSection = <<>> THEN <<>> ELSE Split(SourceSection, "\n")

\* block[from..to] is a whole line of the block
IsLineAt(block, from, to) ==
    /\ from = 1 \/ block[from - 1] = "\n"
    /\ to = Len(block) \/ block[to + 1] = "\n"
    /\ \A k \in from..to : block[k] # "\n"

\* the places <<block, from, to>> where a whole line stands in the blocks
LinePlaces ==
    {p \in UNION {{<<b, from, to>> : from \in 1..(Len(sources_gathered[b]) + 1),
                                     to \in 0..Len(sources_gathered[b])} :
                  b \in 1..Len(sources_gathered)} :
        p[3] >= p[2] - 1 /\ IsLineAt(sources_gathered[p[1]], p[2], p[3])}

LineAt(p) == SubSeq(sources_gathered[p[1]], p[2], p[3])

Occurrences(line) == {p \in LinePlaces : LineAt(p) = line}

Before(p, q) == p[1] < q[1] \/ (p[1] = q[1] /\ p[2] < q[2])

\* the first place of a line that occurs
FirstPlace(line) ==
    CHOOSE p \in Occurrences(line) : \A q \in Occurrences(line) : p = q \/ Before(p, q)

NonBlank(line) == \E k \in 1..Len(line) : line[k] \notin Whitespace

\* C7: the source section lists every non-blank line of the blocks, each once,
\* no blank line, in the order of the lines' first occurrences.
C7_SourceSectionDeduplicated ==
    pc = "END" =>
        LET L == SectionLines
        IN /\ \A i \in 1..Len(L) : NonBlank(L[i]) /\ Occurrences(L[i]) # {}
           /\ \A i, j \in 1..Len(L) : i # j => L[i] # L[j]
           /\ \A p \in LinePlaces :
                  NonBlank(LineAt(p)) => \E i \in 1..Len(L) : L[i] = LineAt(p)
           /\ \A i, j \in 1..Len(L) :
                  i < j => Before(FirstPlace(L[i]), FirstPlace(L[j]))

C7_Witness ==
    /\ pc = "END"
    /\ sources_gathered = << <<"a", "\n", "b">>, <<"b">> >>
    /\ SectionLines = << <<"a">>, <<"b">> >>

----------------------------------------------------------------------------
(* Configuration.from_runnable_config on its own, both variants *)

\* the values an environment variable can be set to
EnvChoices(name) ==
    CASE name = "MAX_WEB_RESEARCH_LOOPS" -> {Str(<<"5">>), Str(<<"abc">>)}
      [] name = "TEMPERATURE" -> {Str(<<"0.7">>)}
      [] name \in {"FETCH_FULL_PAGE", "STRIP_THINKING_TOKENS"} -> {Str(<<"false">>)}
      [] name = "SEARCH_API" -> {Str(<<"tavily">>)}
      [] name \in {"GROQ_MODEL", "OPENAI_MODEL"} -> {Str(<<"env-model">>)}
      [] name = "GROQ_API_KEY" -> {Str(<<"env-groq-key">>)}
      [] name = "OPENAI_API_KEY" -> {Str(<<"env-openai-key">>)}
      [] OTHER -> {}

\* the values an override-map key can be given
OverrideChoices(name) ==
    CASE name = "max_web_research_loops" -> {Num(2)}
      [] name = "temperature" -> {Float(2)}
      [] name \in {"fetch_full_page", "strip_thinking_tokens"} -> {Bool(FALSE)}
      [] name = "search_api" -> {Str(<<"tavily">>)}
      [] name \in {"groq_model", "openai_model"} -> {Str(<<"override-model">>)}
      [] OTHER -> {Str(<<"override-key">>)}

\* the maps over `names` that give a value of choices[n] to at most `most`
\* names n and None to the others
SparseMaps(names, choices, most) ==
    UNION {{[n \in names |-> IF n \in given THEN f[n] ELSE None] :
               f \in {g \in [given -> UNION {choices[n] : n \in given}] :
                          \A n \in given : g[n] \in choices[n]}} :
           given \in {S \in SUBSET names : Cardinality(S) <= most}}

Environments == SparseMaps(EnvNames, [n \in EnvNames |-> EnvChoices(n)], MaxEnvSet)

OverrideMaps ==
    SparseMaps(AllFields, [f \in AllFields |-> OverrideChoices(f)], MaxOverrides)
    \cup {run_config(default_max_web_research_loops, TRUE)}

InitConfig ==
    /\ pc = "resolve"
    /\ variant \in Variants
    /\ env \in Environments
    /\ config \in OverrideMaps
    /\ resolved = None
    /\ research_topic = <<"AI">>
    /\ search_query = None
    /\ research_loop_count = 0
    /\ web_research_results = <<>>
    /\ sources_gathered = <<>>
    /\ running_summary = None
    /\ failure = None
    /\ visited = <<>>
    /\ last_summary = None
    /\ last_call = None
    /\ entry = None

\* one call of Configuration.from_runnable_config(config)
resolve_configuration ==
    /\ pc = "resolve"
    /\ resolved' = Resolve
    /\ pc' = "resolved"
    /\ UNCHANGED <<research_topic, search_query, research_loop_count,
                   web_research_results, sources_gathered, running_summary, config,
                   env, variant, failure, visited, last_summary, last_call, entry>>

SpecConfig == InitConfig /\ [][resolve_configuration]_vars

\* the value an environment string stands for in a field
C9_Read(name, x) ==
    CASE name = "max_web_research_loops" /\ x = Str(<<"5">>) -> Num(5)
      [] name = "temperature" /\ x = Str(<<"0.7">>) -> Float(7)
      [] name \in {"fetch_full_page", "strip_thinking_tokens"} /\ x = Str(<<"false">>)
            -> Bool(FALSE)
      [] OTHER -> x

\* the built-in defaults
C9_Default(v, name) ==
    CASE name = "max_web_research_loops" -> Num(3)
      [] name = "fetch_full_page" -> Bool(TRUE)
      [] name = "strip_thinking_tokens" -> Bool(TRUE)
      [] name = "temperature" -> Float(0)
      [] name = "search_api" -> Str(<<"tavily">>)
      [] name = "groq_model" -> Str(<<"llama-3.3-70b-versatile">>)
      [] name = "openai_model" -> Str(<<"gpt-4">>)
      [] OTHER -> None

\* C9: every declared field resolves to its environment variable when that is
\* set, else to the override-map value when present, else to its default; the
\* resolution fails only on a value its field's type rejects.
C9_EnvThenOverrideThenDefault ==
    pc = "resolved" =>
        /\ ~resolved.ok => env["MAX_WEB_RESEARCH_LOOPS"] = Str(<<"abc">>)
        /\ resolved.ok =>
               \A name \in model_fields(variant) :
                   resolved.val[name] =
                       IF env[upper(name)] # None THEN C9_Read(name, env[upper(name)])
                       ELSE IF config[name] # None THEN config[name]
                       ELSE C9_Default(variant, name)

C9_Witness ==
    /\ pc = "resolved"
    /\ env["TEMPERATURE"] = Str(<<"0.7">>)
    /\ config["temperature"] = Float(2)
    /\ resolved.ok
    /\ resolved.val["temperature"] = Float(7)

\* the provider key is unresolved after the environment and override lookups
C10_KeyUnresolved ==
    /\ env[upper(api_key_field(variant))] = None
    /\ config[api_key_field(variant)] = None

\* C10 as claimed: an unresolved provider key takes the value of OPENAI_API_KEY.
C10_KeyTakesOpenAIKey ==
    (/\ pc = "resolved"
     /\ resolved.ok
     /\ C10_KeyUnresolved
     /\ env["OPENAI_API_KEY"] # None)
    => resolved.val[api_key_field(variant)] = env["OPENAI_API_KEY"]

\* C10 as amended: openai_api_key holds OPENAI_API_KEY whenever it is set, and
\* an unresolved groq_api_key stays None whatever OPENAI_API_KEY holds.
C10_OnlyOpenAIVariantFallsBack ==
    pc = "resolved" /\ resolved.ok =>
        /\ variant = "openai" /\ env["OPENAI_API_KEY"] # None =>
               resolved.val["openai_api_key"] = env["OPENAI_API_KEY"]
        /\ variant = "groq" /\ C10_KeyUnresolved =>
               resolved.val["groq_api_key"] = None

C10_Witness ==
    /\ pc = "resolved"
    /\ resolved.ok
    /\ variant = "groq"
    /\ C10_KeyUnresolved
    /\ env["OPENAI_API_KEY"] = Str(<<"env-openai-key">>)
    /\ resolved.val["groq_api_key"] = None

----------------------------------------------------------------------------
(* The entry points: run_research and main of app.py, main of example_usage.py *)

\* the loop budget both entry points put in their override map
entry_max_web_research_loops == 3

\* an exception object: its class and str(e)
Exc(type, msg) == [type |-> type, msg |-> msg]

\* isinstance(e, Exception): KeyboardInterrupt derives from BaseException only
IsException(type) == type # "KeyboardInterrupt"

\* the exception graph.invoke ends with when a node raised
invoke_failure ==
    IF pc = "raised" THEN Exc(failure.exc, <<failure.exc, " in ", failure.node>>)
    ELSE Exc("none", <<>>)

\* how a block of an entry point ends: the lines it printed, and the value or
\* the exception it leaves with
Ends(lines, result) == [lines |-> lines, result |-> result]

\* the key checks of run_research with the checks moved inside its try block
run_research_keys_in_try(e) ==
    IF Falsy(e["GROQ_API_KEY"])
    THEN Raise(Exc("Exception",
                   <<"Research failed: ", "GROQ_API_KEY",
                     " environment variable is not set. Please set your Groq API key.">>))
    ELSE IF Falsy(e["TAVILY_API_KEY"])
    THEN Raise(Exc("Exception",
                   <<"Research failed: ", "TAVILY_API_KEY",
                     " environment variable is not set. Please set your Tavily API key.">>))
    ELSE Return(None)

\* run_research up to its try block: `if not os.getenv(...)`, twice
run_research_keys(e) ==
    IF Falsy(e["GROQ_API_KEY"])
    THEN Raise(Exc("ValueError",
                   <<"GROQ_API_KEY",
                     " environment variable is not set. Please set your Groq API key.">>))
    ELSE IF Falsy(e["TAVILY_API_KEY"])
    THEN Raise(Exc("ValueError",
                   <<"TAVILY_API_KEY",
                     " environment variable is not set. Please set your Tavily API key.">>))
    ELSE Return(None)

\* the try block of run_research with a bare re-raise
run_research_try_reraise(at_end, summary, e) ==
    IF at_end THEN Return(summary) ELSE Raise(e)

\* the try block of run_research once graph.invoke is over: the summary of the
\* final state, or `except Exception` wrapping what the invocation raised
run_research_try(at_end, summary, e) ==
    IF at_end THEN Return(summary)
    ELSE IF IsException(e.type)
    THEN Raise(Exc("Exception", <<"Research failed: ">> \o e.msg))
    ELSE Raise(e)

\* the except clauses of app.main without the KeyboardInterrupt clause
app_main_except_no_interrupt(e) ==
    IF e.type = "ValueError"
    THEN Ends(<< <<"Configuration Error: ">> \o e.msg,
                 <<"Please check your environment variables.">> >>, Return(None))
    ELSE IF IsException(e.type)
    THEN Ends(<< <<"Error during research: ">> \o e.msg,
                 <<"Please check your API keys and network connection.">> >>,
              Return(None))
    ELSE Ends(<<>>, Raise(e))

\* the except clauses of app.main, in their order
app_main_except(e) ==
    IF e.type = "ValueError"
    THEN Ends(<< <<"Configuration Error: ">> \o e.msg,
                 <<"Please check your environment variables.">> >>, Return(None))
    ELSE IF IsException(e.type)
    THEN Ends(<< <<"Error during research: ">> \o e.msg,
                 <<"Please check your API keys and network connection.">> >>,
              Return(None))
    ELSE IF e.type = "KeyboardInterrupt"
    THEN Ends(<< <<"Research cancelled">> >>, Return(None))
    ELSE Ends(<<>>, Raise(e))

\* the except clause around the prompts of example_usage.main
example_prompt_except(e) ==
    IF e.type = "KeyboardInterrupt"
    THEN Ends(<< <<"Research cancelled">> >>, Return(None))
    ELSE Ends(<<>>, Raise(e))

\* the except clause around graph.invoke in example_usage.main
example_invoke_except(e) ==
    IF IsException(e.type)
    THEN Ends(<< <<"Error during research: ">> \o e.msg,
                 <<"Please check your API keys and network connection.">> >>,
              Return(None))
    ELSE Ends(<<>>, Raise(e))

\* the lines both mains print before the run
starting_lines(topic) ==
    << <<"Starting research on: ">> \o topic, <<"This may take a few minutes...">>,
       <<"--------------------------------------------------">> >>

\* the lines both mains print after the run
complete_lines(summary) ==
    << <<"Research Complete!">>, <<"==================================================">>, format_value(summary) >>

\* research_topics of example_usage.main
research_topics ==
    << <<"Latest developments in artificial intelligence and machine learning in 2024">>,
       <<"Impact of renewable energy adoption on global climate change">>,
       <<"Current state of quantum computing technology and its applications">>,
       <<"Emerging trends in cybersecurity and data privacy">> >>

\* characters of the Unicode category of decimal digits: int() reads them
DecimalChars ==
    {"0", "1", "2", "3", "4", "5", "6", "7", "8", "9", "<ARABIC-INDIC DIGIT THREE>"}

\* characters str.isdigit accepts: the decimal digits and the other digit
\* characters, such as superscripts
DigitChars == DecimalChars \cup {"<SUPERSCRIPT TWO>"}

\* the value of a decimal character
DecimalValue(c) ==
    CASE c = "0" -> 0 [] c = "1" -> 1 [] c = "2" -> 2 [] c = "3" -> 3 [] c = "4" -> 4
      [] c = "5" -> 5 [] c = "6" -> 6 [] c = "7" -> 7 [] c = "8" -> 8 [] c = "9" -> 9
      [] c = "<ARABIC-INDIC DIGIT THREE>" -> 3

\* text.isdigit()
isdigit(text) == text # <<>> /\ \A i \in 1..Len(text) : text[i] \in DigitChars

RECURSIVE DecimalNumber(_)
DecimalNumber(text) ==
    IF text = <<>> THEN 0
    ELSE 10 * DecimalNumber(SubSeq(text, 1, Len(text) - 1))
         + DecimalValue(text[Len(text)])

\* int(text) of a text of digit characters: a digit that is no decimal digit is
\* an invalid literal
int(text) ==
    IF \A i \in 1..Len(text) : text[i] \in DecimalChars
    THEN Return(DecimalNumber(text))
    ELSE Raise(Exc("ValueError", <<"invalid literal for int() with base 10">>))

\* str(n)
str(n) == <<ToString(n)>>

\* the if / elif / else of example_usage.main on the stripped menu input
menu_choice(choice) ==
    LET number == int(choice)
    IN IF isdigit(choice) /\ ~number.ok THEN number
       ELSE IF isdigit(choice) /\ 1 <= number.val /\ number.val <= Len(research_topics)
       THEN Return([kind |-> "listed", topic |-> research_topics[number.val]])
       ELSE IF choice = str(Len(research_topics) + 1)
       THEN Return([kind |-> "own", topic |-> <<>>])
       ELSE Return([kind |-> "invalid", topic |-> <<>>])

\* what the user types at the topic prompt
TopicInputs == {<<>>, <<" ">>, <<" ", "AI", "\n">>}

\* what the user types at the menu prompt
ChoiceInputs ==
    {<<"1">>, <<"4">>, <<"5">>, <<" ", "5", "\n">>, <<>>, <<" ">>, <<"0">>, <<"6">>, <<"1", "0">>, <<"0", "1">>, <<"0", "5">>, <<"a">>, <<"-", "1">>,
     <<"1", ".", "0">>, <<"<SUPERSCRIPT TWO>">>, <<"<ARABIC-INDIC DIGIT THREE>">>}

\* input(prompt): the line typed, or the interrupt the user sends instead
InputOutcomes(texts) ==
    {Return(t) : t \in texts} \cup {Raise(Exc("KeyboardInterrupt", <<>>))}

\* the environments an entry point starts in: each provider key absent, empty
\* or set, and one with both keys and a loop budget that is no number
EntryEnvironments ==
    {[name \in EnvNames |->
         IF name = "GROQ_API_KEY" THEN g
         ELSE IF name = "TAVILY_API_KEY" THEN t ELSE None] :
       g \in {None, Str(<<>>), Str(<<"key">>)}, t \in {None, Str(<<>>), Str(<<"key">>)}}
    \cup {[run_env EXCEPT !["MAX_WEB_RESEARCH_LOOPS"] = Str(<<"many">>)]}

EntryPoints == {"run_research", "app", "example"}

\* app.py runs the graph of openai_deep_researcher, example_usage.py the graph
\* of claude_deep_researcher; both are the same five nodes and edges
InitEntry ==
    /\ pc = "idle"
    /\ research_topic = <<>>
    /\ search_query = None
    /\ research_loop_count = 0
    /\ web_research_results = <<>>
    /\ sources_gathered = <<>>
    /\ running_summary = None
    /\ config = run_config(entry_max_web_research_loops, TRUE)
    /\ env \in EntryEnvironments
    /\ entry \in {[point |-> p, at |-> "called",
                   topic |-> IF p = "run_research" THEN <<"AI">> ELSE <<>>,
                   inputs |-> <<>>, printed |-> <<>>, result |-> None] : p \in EntryPoints}
    /\ variant = IF entry.point = "example" THEN "groq" ELSE "openai"
    /\ resolved = None
    /\ failure = None
    /\ visited = <<>>
    /\ last_summary = None
    /\ last_call = None

\* the entry point is over
Finish(typed, lines, result) ==
    entry' = [entry EXCEPT !.at = "done", !.inputs = @ \o typed,
                           !.printed = @ \o lines, !.result = result]

\* graph.invoke(SummaryStateInput(research_topic=topic), config=config) begins
invoke(topic, typed, lines) ==
    /\ pc' = edge("START")
    /\ research_topic' = topic
    /\ entry' = [entry EXCEPT !.at = "invoke", !.topic = topic,
                              !.inputs = @ \o typed, !.printed = @ \o lines]

\* run_research(topic) called by a program, up to graph.invoke
run_research ==
    /\ entry.point = "run_research"
    /\ entry.at = "called"
    /\ LET keys == run_research_keys(env)
       IN IF keys.ok THEN invoke(entry.topic, <<>>, <<>>)
          ELSE Finish(<<>>, <<>>, keys) /\ UNCHANGED <<pc, research_topic>>
    /\ UNCHANGED <<search_query, research_loop_count, web_research_results,
                   sources_gathered, running_summary, config, env, variant,
                   resolved, failure, visited, last_summary, last_call>>

\* main of app.py, from the prompt up to graph.invoke inside run_research
app_main ==
    /\ entry.point = "app"
    /\ entry.at = "called"
    /\ \E typed \in InputOutcomes(TopicInputs) :
         LET banner == << <<"Groq Deep Researcher">>,
                          <<"==================================================">> >>
             topic == Strip(typed.val)
             keys == run_research_keys(env)
             caught == app_main_except(IF typed.ok THEN keys.exc ELSE typed.exc)
         IN IF ~typed.ok
            THEN Finish(<<typed>>, banner \o caught.lines, caught.result)
                 /\ UNCHANGED <<pc, research_topic>>
            ELSE IF topic = <<>>
            THEN Finish(<<typed>>, banner \o << <<"Error: No topic entered">> >>,
                        Return(None))
                 /\ UNCHANGED <<pc, research_topic>>
            ELSE IF ~keys.ok
            THEN Finish(<<typed>>, banner \o starting_lines(topic) \o caught.lines,
                        caught.result)
                 /\ UNCHANGED <<pc, research_topic>>
            ELSE invoke(topic, <<typed>>, banner \o starting_lines(topic))
    /\ UNCHANGED <<search_query, research_loop_count, web_research_results,
                   sources_gathered, running_summary, config, env, variant,
                   resolved, failure, visited, last_summary, last_call>>

\* main of example_usage.py, up to the menu prompt
example_main ==
    /\ entry.point = "example"
    /\ entry.at = "called"
    /\ IF Falsy(env["GROQ_API_KEY"])
       THEN Finish(<<>>, << <<"Error: GROQ_API_KEY environment variable is not set">>,
                      <<"Please set your Groq API key:">>,
                      <<"export GROQ_API_KEY='your-api-key-here'">> >>, Return(None))
       ELSE IF Falsy(env["TAVILY_API_KEY"])
       THEN Finish(<<>>, << <<"Error: TAVILY_API_KEY environment variable is not set">>,
                      <<"Please set your Tavily API key:">>,
                      <<"export TAVILY_API_KEY='your-api-key-here'">> >>, Return(None))
       ELSE entry' = [entry EXCEPT
                         !.at = "menu",
                         !.printed =
                             << <<"Groq Deep Researcher">>,
                                <<"==================================================">>,
                                <<"Choose a research topic:">> >>
                             \o [i \in 1..Len(research_topics) |->
                                    str(i) \o <<". ">> \o research_topics[i]]
                             \o << str(Len(research_topics) + 1)
                                   \o <<". Enter your own topic">> >>]
    /\ UNCHANGED <<pc, research_topic, search_query, research_loop_count,
                   web_research_results, sources_gathered, running_summary, config,
                   env, variant, resolved, failure, visited, last_summary, last_call>>

\* main of example_usage.py at the menu prompt
example_main_choice ==
    /\ entry.point = "example"
    /\ entry.at = "menu"
    /\ \E typed \in InputOutcomes(ChoiceInputs) :
         LET chosen == menu_choice(Strip(typed.val))
             caught == example_prompt_except(IF typed.ok THEN chosen.exc ELSE typed.exc)
         IN IF ~typed.ok \/ ~chosen.ok
            THEN Finish(<<typed>>, caught.lines, caught.result)
                 /\ UNCHANGED <<pc, research_topic>>
            ELSE IF chosen.val.kind = "listed"
            THEN invoke(chosen.val.topic, <<typed>>, starting_lines(chosen.val.topic))
            ELSE IF chosen.val.kind = "own"
            THEN /\ entry' = [entry EXCEPT !.at = "own_topic",
                                           !.inputs = @ \o <<typed>>]
                 /\ UNCHANGED <<pc, research_topic>>
            ELSE Finish(<<typed>>, << <<"Error: Invalid choice">> >>, Return(None))
                 /\ UNCHANGED <<pc, research_topic>>
    /\ UNCHANGED <<search_query, research_loop_count, web_research_results,
                   sources_gathered, running_summary, config, env, variant,
                   resolved, failure, visited, last_summary, last_call>>

\* main of example_usage.py at the prompt for the user's own topic
example_main_topic ==
    /\ entry.point = "example"
    /\ entry.at = "own_topic"
    /\ \E typed \in InputOutcomes(TopicInputs) :
         LET topic == Strip(typed.val)
             caught == example_prompt_except(typed.exc)
         IN IF ~typed.ok
            THEN Finish(<<typed>>, caught.lines, caught.result)
                 /\ UNCHANGED <<pc, research_topic>>
            ELSE IF topic = <<>>
            THEN Finish(<<typed>>, << <<"Error: No topic entered">> >>, Return(None))
                 /\ UNCHANGED <<pc, research_topic>>
            ELSE invoke(topic, <<typed>>, starting_lines(topic))
    /\ UNCHANGED <<search_query, research_loop_count, web_research_results,
                   sources_gathered, running_summary, config, env, variant,
                   resolved, failure, visited, last_summary, last_call>>

\* the user sends an interrupt while graph.invoke runs: KeyboardInterrupt is
\* raised inside the node the engine is about to run
interrupt ==
    /\ entry.at = "invoke"
    /\ pc \in Nodes
    /\ Abort(pc, "KeyboardInterrupt")
    /\ UNCHANGED <<research_topic, search_query, research_loop_count,
                   web_research_results, sources_gathered, running_summary, config,
                   env, variant, resolved, last_summary, last_call, entry>>

\* graph.invoke is over: what the entry point does with its result or exception
invoke_returns ==
    /\ entry.at = "invoke"
    /\ pc \in {"END", "raised"}
    /\ LET returned == run_research_try(pc = "END", running_summary, invoke_failure)
           caught == IF entry.point = "app" THEN app_main_except(returned.exc)
                     ELSE example_invoke_except(invoke_failure)
       IN CASE entry.point = "run_research" -> Finish(<<>>, <<>>, returned)
            [] entry.point = "app" ->
                 IF returned.ok
                 THEN Finish(<<>>, complete_lines(returned.val), Return(None))
                 ELSE Finish(<<>>, caught.lines, caught.result)
            [] entry.point = "example" ->
                 IF pc = "END"
                 THEN Finish(<<>>, complete_lines(running_summary), Return(None))
                 ELSE Finish(<<>>, caught.lines, caught.result)
    /\ UNCHANGED <<pc, research_topic, search_query, research_loop_count,
                   web_research_results, sources_gathered, running_summary, config,
                   env, variant, resolved, failure, visited, last_summary, last_call>>

NextEntry ==
    \/ run_research
    \/ app_main
    \/ example_main
    \/ example_main_choice
    \/ example_main_topic
    \/ Next
    \/ interrupt
    \/ invoke_returns

SpecEntry == InitEntry /\ [][NextEntry]_vars

----------------------------------------------------------------------------
(* Properties of the entry points *)

\* the variable is absent from the environment
Absent(name) == env[name] = None

\* the text holds this piece
Mentions(text, piece) == \E i \in 1..Len(text) : text[i] = piece

\* the entry point printed this line
Printed(line) == \E i \in 1..Len(entry.printed) : entry.printed[i] = line

\* the variable the checks of run_research find missing first
FirstMissing ==
    IF Falsy(env["GROQ_API_KEY"]) THEN "GROQ_API_KEY" ELSE "TAVILY_API_KEY"

\* C11: run_research called with GROQ_API_KEY or TAVILY_API_KEY absent ends by
\* raising ValueError; the message names a variable that is not set, GROQ_API_KEY
\* when that one is absent; no node ran, no model or search call was issued, and
\* the exception is the ValueError itself, without the "Research failed: " prefix.
C11_MissingKeyIsConfigurationFailure ==
    /\ entry.point = "run_research"
    /\ entry.at # "called"
    /\ Absent("GROQ_API_KEY") \/ Absent("TAVILY_API_KEY")
    => /\ entry.at = "done"
       /\ ~entry.result.ok
       /\ entry.result.exc.type = "ValueError"
       /\ Mentions(entry.result.exc.msg, FirstMissing)
       /\ Absent("GROQ_API_KEY") => Mentions(entry.result.exc.msg, "GROQ_API_KEY")
       /\ ~Mentions(entry.result.exc.msg, "Research failed: ")
       /\ pc = "idle"
       /\ visited = <<>>
       /\ failure = None
       /\ last_call = None

C11_Witness ==
    /\ entry.point = "run_research"
    /\ entry.at = "done"
    /\ ~Absent("GROQ_API_KEY")
    /\ Absent("TAVILY_API_KEY")
    /\ ~entry.result.ok
    /\ entry.result.exc.type = "ValueError"
    /\ Mentions(entry.result.exc.msg, "TAVILY_API_KEY")

\* C12: when the invocation inside run_research ends with an exception of a
\* node (a failed model or search call, a Configuration that does not validate,
\* an error of the node's own code), run_research raises Exception with the
\* message "Research failed: " followed by the message of that exception, and
\* never that exception itself.
C12_InvocationFailureIsWrapped ==
    /\ entry.point = "run_research"
    /\ entry.at = "done"
    /\ pc = "raised"
    /\ IsException(failure.exc)
    => /\ ~entry.result.ok
       /\ entry.result.exc.type = "Exception"
       /\ entry.result.exc.msg = <<"Research failed: ">> \o invoke_failure.msg
       /\ entry.result.exc # invoke_failure

C12_Witness ==
    /\ entry.point = "run_research"
    /\ entry.at = "done"
    /\ pc = "raised"
    /\ failure.node = "web_research"
    /\ failure.exc = "APIError"
    /\ entry.result.exc.msg = <<"Research failed: ", "APIError", " in ", "web_research">>

\* the user sent an interrupt at the last prompt of the entry point
InterruptedAtPrompt ==
    /\ entry.inputs # <<>>
    /\ ~entry.inputs[Len(entry.inputs)].ok
    /\ entry.inputs[Len(entry.inputs)].exc.type = "KeyboardInterrupt"

\* the user sent an interrupt while graph.invoke ran
InterruptedInRun == pc = "raised" /\ failure.exc = "KeyboardInterrupt"

\* the entry point caught the interrupt and said so
Cancelled == Printed(<<"Research cancelled">>) /\ entry.result = Return(None)

\* the interrupt left the entry point uncaught, and nothing was said
Uncaught ==
    /\ ~Printed(<<"Research cancelled">>)
    /\ ~entry.result.ok
    /\ entry.result.exc.type = "KeyboardInterrupt"

\* C15 as stated: in both mains an interrupt at a prompt is caught and reported,
\* and an interrupt during the run is not caught and not reported.
C15_CancellationOnlyAtPrompts ==
    entry.point \in {"app", "example"} /\ entry.at = "done" =>
        /\ InterruptedAtPrompt => Cancelled
        /\ InterruptedInRun => Uncaught

\* C15 as the code has it: both mains catch and report an interrupt at a prompt;
\* an interrupt during the run leaves main of example_usage.py uncaught and
\* unreported, passes run_research unchanged, and is caught and reported by main
\* of app.py, whose try block holds the prompt and the run alike.
C15_CancellationByEntryPoint ==
    entry.at = "done" =>
        /\ entry.point \in {"app", "example"} /\ InterruptedAtPrompt => Cancelled
        /\ entry.point \in {"example", "run_research"} /\ InterruptedInRun => Uncaught
        /\ entry.point = "app" /\ InterruptedInRun => Cancelled

C15_Witness ==
    /\ entry.point = "app"
    /\ entry.at = "done"
    /\ InterruptedInRun
    /\ failure.node = "summarize_sources"
    /\ Cancelled

\* the menu input names one of the options 1 to 5: a decimal numeral of that value
SelectsOption(text) ==
    LET choice == Strip(text)
    IN /\ choice # <<>>
       /\ \A i \in 1..Len(choice) : choice[i] \in DecimalChars
       /\ DecimalNumber(choice) \in 1..(Len(research_topics) + 1)

\* C16: whatever text typed at the menu of example_usage.py names none of the
\* options 1 to 5, main prints an error and returns: it raises nothing and does
\* not invoke the workflow.
C16_InvalidChoiceReturns ==
    /\ entry.point = "example"
    /\ entry.inputs # <<>>
    /\ entry.inputs[1].ok
    /\ ~SelectsOption(entry.inputs[1].val)
    => /\ entry.at = "done"
       /\ entry.result = Return(None)
       /\ Printed(<<"Error: Invalid choice">>)
       /\ pc = "idle"

----------------------------------------------------------------------------
(* Further properties of the workflow run *)

\* C13: the search_query generate_query leaves behind is never empty: it is
\* neither None nor the empty text.
C13_GenerateQueryNonEmpty ==
    Replied("generate_query") /\ pc = "web_research" =>
        /\ search_query # None
        /\ search_query # Str(<<>>)

\* a model call or a search call of the run failed
CallFailed ==
    /\ pc = "raised"
    /\ last_call # None
    /\ ~last_call.reply.ok

\* C14: a run in which no model call and no search call failed does not come to
\* rest before the end: when no node is left to execute, finalize_summary has
\* executed and the run is at END.
C14_RunEndsAfterFinalize ==
    ~(ENABLED Next) /\ ~CallFailed =>
        /\ pc = "END"
        /\ Count(visited, "finalize_summary") = 1

\* how many summarize_sources executions completed before the call the state holds
SummariesBefore ==
    Count(visited, "summarize_sources") - (IF last_call.reply.ok THEN 1 ELSE 0)

\* C18 as stated: summarize_sources asks to create a summary exactly on its
\* first execution of the run and to update on every later one.
C18_CreateOnlyOnFirstExecution ==
    last_call # None /\ last_call.request.node = "summarize_sources" =>
        (last_call.request.message.framing = "Create a Summary using the Context"
            <=> SummariesBefore = 0)

\* C18 as the code has it: summarize_sources asks to create a summary exactly
\* when no summary text is there, which is on its first execution and on a later
\* one when the summarization before it left the empty text; otherwise it asks
\* to update and hands over the summary of the execution before.
C18_CreateWhenNoSummaryText ==
    [][pc = "summarize_sources" /\ pc' # pc =>
          LET message == last_call'.request.message
              first == Count(visited, "summarize_sources") = 0
          IN /\ message.framing \in
                    {"Create a Summary using the Context",
                     "Update the Existing Summary with the New Context"}
             /\ message.framing = "Create a Summary using the Context"
                    <=> first \/ last_summary = Str(<<>>)
             /\ message.framing = "Update the Existing Summary with the New Context"
                    => message.existing = last_summary]_vars

C18_Witness ==
    /\ last_call # None
    /\ last_call.request.node = "summarize_sources"
    /\ last_call.reply.ok
    /\ Count(visited, "summarize_sources") = 2
    /\ last_call.request.message.framing = "Create a Summary using the Context"

\* the fields of the workflow state
state == <<research_topic, search_query, research_loop_count, web_research_results,
           sources_gathered, running_summary>>

\* C19: a step in which a model call or a search call fails ends the run with
\* that failure and leaves every state field as it was, the failing node is not
\* counted as executed, and no step follows: nothing is called or executed again.
C19_FailedCallAbortsRun ==
    /\ [][(pc \in Nodes \ {"finalize_summary"} /\ ~last_call'.reply.ok) =>
             (/\ pc' = "raised"
              /\ failure' = [node |-> pc, exc |-> last_call'.reply.exc]
              /\ state' = state
              /\ visited' = visited)]_vars
    /\ [][pc # "raised"]_vars

C19_Witness ==
    /\ pc = "raised"
    /\ failure = [node |-> "summarize_sources", exc |-> "APIError"]
    /\ ~last_call.reply.ok
    /\ research_loop_count = 2
    /\ Count(visited, "summarize_sources") = 1

\* C20: research_topic never changes; research_loop_count starts at 0 and is
\* changed only by web_research, by one; of the state fields generate_query and
\* reflect_on_summary (with the routing that follows it) change search_query
\* only, summarize_sources and finalize_summary running_summary only.
C20_NodesWriteTheirFields ==
    /\ research_loop_count = 0
    /\ [][/\ research_topic' = research_topic
          /\ research_loop_count' # research_loop_count =>
                 /\ pc = "web_research"
                 /\ research_loop_count' = research_loop_count + 1
          /\ pc \in {"generate_query", "reflect_on_summary"} =>
                 UNCHANGED <<research_topic, research_loop_count,
                             web_research_results, sources_gathered, running_summary>>
          /\ pc \in {"summarize_sources", "finalize_summary"} =>
                 UNCHANGED <<research_topic, search_query, research_loop_count,
                             web_research_results, sources_gathered>>]_vars

C20_Witness ==
    /\ pc = "END"
    /\ visited = <<"generate_query", "web_research", "summarize_sources",
                   "reflect_on_summary", "web_research", "summarize_sources",
                   "reflect_on_summary", "finalize_summary">>
    /\ research_loop_count = 2
    /\ search_query = fallback_query(research_topic)
    /\ running_summary # last_summary

----------------------------------------------------------------------------
(* A run during which the environment changes *)

\* the run of the entry points: their override map, both keys set
InitEnv ==
    /\ pc = edge("START")
    /\ research_topic = <<"AI">>
    /\ search_query = None
    /\ research_loop_count = 0
    /\ web_research_results = <<>>
    /\ sources_gathered = <<>>
    /\ running_summary = None
    /\ config = run_config(entry_max_web_research_loops, TRUE)
    /\ env = run_env
    /\ variant = "groq"
    /\ resolved = None
    /\ failure = None
    /\ visited = <<>>
    /\ last_summary = None
    /\ last_call = None
    /\ entry = None

\* the values MAX_WEB_RESEARCH_LOOPS is set to while the run is under way
LaterBudgets == {Str(<<"0">>), Str(<<"1">>)}

\* os.environ["MAX_WEB_RESEARCH_LOOPS"] is assigned between two nodes of a run
\* (by another thread of the process, or by a callback of the run)
environment_change ==
    /\ pc \in Nodes
    /\ env["MAX_WEB_RESEARCH_LOOPS"] = None
    /\ \E budget \in LaterBudgets :
         env' = [env EXCEPT !["MAX_WEB_RESEARCH_LOOPS"] = budget]
    /\ UNCHANGED <<pc, research_topic, search_query, research_loop_count,
                   web_research_results, sources_gathered, running_summary, config,
                   variant, resolved, failure, visited, last_summary, last_call,
                   entry>>

NextEnv ==
    \/ Next
    \/ environment_change

SpecEnv == InitEnv /\ [][NextEnv]_vars

\* the Configuration the environment of the start of the run gives
ResolvedAtStart == from_runnable_config(variant, config, run_env)

\* C17 as stated: whatever a node resolves during the run is the Configuration
\* of the start of the run, and the routing follows that budget whatever happens
\* to the environment afterwards.
C17_ConfigurationFixedForRun ==
    /\ resolved # None => resolved = ResolvedAtStart
    /\ pc \in {"finalize_summary", "END"} =>
           research_loop_count = ResolvedAtStart.val["max_web_research_loops"].n + 1

\* C17 as the code has it: every node resolves the Configuration anew from the
\* override map and the environment as it is at that moment, and the routing
\* after reflect_on_summary follows the budget the environment gives then; the
\* resolved values are those of the start of the run as long as the environment
\* is unchanged.
C17_ConfigurationResolvedPerNode ==
    /\ [](resolved # None /\ env = run_env => resolved = ResolvedAtStart)
    /\ [][(pc \in Nodes \ {"finalize_summary"} /\ pc' # pc) =>
             (/\ resolved' = from_runnable_config(variant, config, env)
              /\ pc = "reflect_on_summary" /\ pc' # "raised" =>
                     pc' = IF research_loop_count
                               <= resolved'.val["max_web_research_loops"].n
                           THEN "web_research" ELSE "finalize_summary")]_vars

C17_Witness ==
    /\ pc = "END"
    /\ env["MAX_WEB_RESEARCH_LOOPS"] = Str(<<"1">>)
    /\ config["max_web_research_loops"] = Num(3)
    /\ Count(visited, "web_research") = 2
    /\ resolved # ResolvedAtStart

----------------------------------------------------------------------------
(* What a node finds in the state when it executes *)

\* the context block the search call the state holds was turned into
BlockOfLastSearch ==
    deduplicate_and_format_sources(last_call.reply.val,
                                   resolved.val["fetch_full_page"].b)

\* C21: when summarize_sources is about to execute, web_research_results is
\* not empty, holds one block per web_research execution, and its last element
\* is the block of the search that has just returned; the context the
\* summarizer is then given is that block, and reading it never fails.  When
\* reflect_on_summary or finalize_summary is about to execute, running_summary
\* holds a text.
C21_NodesFindTheirInputs ==
    /\ [](pc = "summarize_sources" =>
              /\ web_research_results # <<>>
              /\ Len(web_research_results) = Count(visited, "web_research")
              /\ visited[Len(visited)] = "web_research"
              /\ Replied("web_research")
              /\ web_research_results[Len(web_research_results)] = BlockOfLastSearch)
    /\ [](pc \in {"reflect_on_summary", "finalize_summary"} =>
              /\ running_summary # None
              /\ running_summary.t = "str")
    /\ [][(pc = "summarize_sources" /\ pc' # pc) =>
             (/\ last_call'.request.node = "summarize_sources"
              /\ last_call'.request.message.context = BlockOfLastSearch
              /\ pc' = "raised" => failure'.exc # "IndexError")]_vars

C21_Witness ==
    /\ pc = "reflect_on_summary"
    /\ research_loop_count = 2
    /\ web_research_results[1] # web_research_results[2]
    /\ last_call.request.node = "summarize_sources"
    /\ last_call.request.message.context = web_research_results[2]
    /\ running_summary = Str(<<"s2">>)

----------------------------------------------------------------------------
(* Override-map keys the resolving variant does not declare *)

\* the override map without the keys that are no declared field of the variant
Declared(v, configurable) ==
    [name \in AllFields |->
        IF name \in model_fields(v) THEN configurable[name] ELSE None]

\* the override map run_research builds
RunResearchMap == run_config(entry_max_web_research_loops, TRUE)

\* C22: the resolver gives what it gives for the override map without its
\* undeclared keys.  For the OpenAI-style variant and the map of run_research,
\* which names groq_model and no openai_model: without OPENAI_MODEL in the
\* environment the model is the default "gpt-4", not the name in the map; the
\* temperature is 0.1 and the loop budget 3, each unless its own environment
\* variable is set.
C22_UndeclaredKeysIgnored ==
    pc = "resolved" =>
        /\ resolved = from_runnable_config(variant, Declared(variant, config), env)
        /\ variant = "openai" /\ config = RunResearchMap /\ resolved.ok =>
               /\ env["OPENAI_MODEL"] = None =>
                      /\ resolved.val["openai_model"] = Str(<<"gpt-4">>)
                      /\ resolved.val["openai_model"] # config["groq_model"]
               /\ env["TEMPERATURE"] = None => resolved.val["temperature"] = Float(1)
               /\ env["MAX_WEB_RESEARCH_LOOPS"] = None =>
                      resolved.val["max_web_research_loops"] = Num(3)

C22_Witness ==
    /\ pc = "resolved"
    /\ variant = "openai"
    /\ config = RunResearchMap
    /\ config["groq_model"] = Str(<<"llama-3.3-70b-versatile">>)
    /\ \A name \in EnvNames : env[name] = None
    /\ resolved.ok
    /\ resolved.val["openai_model"] = Str(<<"gpt-4">>)
    /\ resolved.val["temperature"] = Float(1)
    /\ resolved.val["max_web_research_loops"] = Num(3)

====
